---- MODULE Spec2Model ----
(***************************************************************************)
(* Model of src/dataflow/src/source/loki.rs: the Loki tail source.         *)
(* LokiSourceReader::start is a single asynchronous task; the model        *)
(* follows its control position (pc), the live websocket subscription,     *)
(* the open sink transaction and the record of what the task asked of the  *)
(* outside world (connection attempts, tx.insert calls).                   *)
(***************************************************************************)
EXTENDS Integers, Sequences, FiniteSets, TLC

(***************************************************************************)
(* Bounds of the model.                                                    *)
(***************************************************************************)
MaxAttempts == 3    \* calls of get_stream in one run
MaxMsgs     == 3    \* items yielded by stream.next() in one run
MaxStreams  == 2    \* streams in one payload
MaxEntries  == 2    \* log entries in one payload
MaxCalls    == 2    \* builder calls on one connection information

(***************************************************************************)
(* Program constants.                                                      *)
(***************************************************************************)
RetryDelay == 5     \* Duration::from_secs(5)

None == "None"      \* Option::None

(***************************************************************************)
(* Connection information.  The endpoint is a sequence of string segments; *)
(* LokiSourceReader::new appends the tail path to it.                      *)
(***************************************************************************)
Users     == {None, "u", "v"}
Passwords == {None, "p", "q"}
Endpoints == {<<"">>, <<"https://loki">>, <<"loki:3100">>, <<"loki">>}
TailPath  == "/loki/api/v1/tail"

\* Option<String> of an address: <<>> is None, a one-segment text is Some.
NoAddr == <<>>
Addrs  == {NoAddr} \cup Endpoints

LokiConnectionInfo == [user : Users, pw : Passwords, endpoint : Endpoints]

\* The connection information the reader is constructed with.
Configs ==
    {[user |-> None, pw |-> None, endpoint |-> <<"">>],
     [user |-> "u",  pw |-> "p",  endpoint |-> <<"https://loki">>],
     [user |-> "u",  pw |-> None, endpoint |-> <<"loki:3100">>],
     [user |-> None, pw |-> "p",  endpoint |-> <<"loki">>]}

\* The environment from_env reads: each variable is set or unset.
Envs == [LOKI_USERNAME : Users, LOKI_PASSWORD : Passwords, LOKI_ADDR : Addrs]

\* env::var(..).ok() for the credentials, unwrap_or_else("") for the address.
from_env(env) ==
    [user     |-> env.LOKI_USERNAME,
     pw       |-> env.LOKI_PASSWORD,
     endpoint |-> IF env.LOKI_ADDR = NoAddr THEN <<"">> ELSE env.LOKI_ADDR]

\* Variant of with_user: the argument is stored whatever it is.
with_user_Overwrite(self, user) == [self EXCEPT !.user = user]

\* if user.is_some() { self.user = user }
with_user(self, user) ==
    IF user /= None THEN [self EXCEPT !.user = user] ELSE self

\* if password.is_some() { self.pw = password }
with_password(self, password) ==
    IF password /= None THEN [self EXCEPT !.pw = password] ELSE self

\* if let Some(address) = address { self.endpoint = address }
with_endpoint(self, address) ==
    IF address /= NoAddr THEN [self EXCEPT !.endpoint = address] ELSE self

new(info) == [info EXCEPT !.endpoint = Append(info.endpoint, TailPath)]

\* The scheme url::Url::parse finds in the endpoint; "" when the text has no
\* scheme, in which case parsing fails (relative URL without a base).
\* "loki:3100/loki/api/v1/tail" parses, with the non-special scheme "loki".
SchemeOf(endpoint) ==
    CASE endpoint[1] = "https://loki" -> "https"
      [] endpoint[1] = "loki:3100"    -> "loki"
      [] OTHER                        -> ""

SpecialSchemes == {"http", "https", "ws", "wss", "ftp", "file"}

url_parse_ok(endpoint) == SchemeOf(endpoint) /= ""

\* Url::set_scheme refuses to turn a non-special scheme into a special one.
set_scheme_ok(endpoint) == SchemeOf(endpoint) \in SpecialSchemes

(***************************************************************************)
(* The Authorization header.  Texts are byte sequences; base64::STANDARD   *)
(* turns each group of three bytes into four 6-bit digits and pads a last  *)
(* group of one or two bytes with '=' (written 64 here).                   *)
(***************************************************************************)
Colon == 58     \* the byte ':'
Pad   == 64     \* the digit '='

Bytes(s) ==
    CASE s = "u" -> <<117>>
      [] s = "v" -> <<118>>
      [] s = "p" -> <<112>>
      [] s = "q" -> <<113>>

RECURSIVE Base64(_)
Base64(bs) ==
    IF bs = <<>> THEN <<>>
    ELSE IF Len(bs) = 1 THEN
        <<bs[1] \div 4, (bs[1] % 4) * 16, Pad, Pad>>
    ELSE IF Len(bs) = 2 THEN
        <<bs[1] \div 4, (bs[1] % 4) * 16 + bs[2] \div 16, (bs[2] % 16) * 4, Pad>>
    ELSE
        <<bs[1] \div 4, (bs[1] % 4) * 16 + bs[2] \div 16,
          (bs[2] % 16) * 4 + bs[3] \div 64, bs[3] % 64>>
        \o Base64(SubSeq(bs, 4, Len(bs)))

\* Variant of authorization: the header needs both the user and the password.
authorization_NeedsPassword(info) ==
    IF info.user /= None /\ info.pw /= None
    THEN {[name  |-> "Authorization",
           value |-> [prefix |-> "Basic ",
                      b64    |-> Base64(Bytes(info.user) \o <<Colon>> \o Bytes(info.pw))]]}
    ELSE {}

\* The headers get_stream adds to the request: "Basic " followed by the
\* base64 text of "{user}:" and, when there is one, of the password.
authorization(info) ==
    IF info.user /= None
    THEN {[name  |-> "Authorization",
           value |-> [prefix |-> "Basic ",
                      b64    |-> Base64(Bytes(info.user) \o <<Colon>>
                                        \o (IF info.pw /= None
                                            THEN Bytes(info.pw) ELSE <<>>))]]}
    ELSE {}

\* The client request handed to connect_async by the n-th get_stream call.
NoRequest == [attempt |-> 0, start |-> 0, headers |-> {}]
client_request(info, n, t) ==
    [attempt |-> n, start |-> t, headers |-> authorization(info)]

(***************************************************************************)
(* Wire data.  A message's data is empty, or bytes that are not JSON, or a *)
(* JSON object.  A JSON object has a member "streams" (key = "streams") or *)
(* lacks it.  A stream on the wire is {"stream": labels, "values": [...]}; *)
(* an entry on the wire is a JSON array, [ts, line] when well formed.      *)
(***************************************************************************)
SeqsUpTo(S, n) == UNION {[1..k -> S] : k \in 0..n}

LabelMaps   == [{"job"} -> {"a", "b"}]
WireEntries == {<<"1", "x">>, <<"2", "y">>, <<"3">>}
WireStreams == [stream : LabelMaps, values : SeqsUpTo(WireEntries, MaxEntries)]

RECURSIVE TotalEntries(_)
TotalEntries(ss) ==
    IF ss = <<>> THEN 0 ELSE Len(Head(ss).values) + TotalEntries(Tail(ss))

WirePayloads ==
    {p \in SeqsUpTo(WireStreams, MaxStreams) : TotalEntries(p) <= MaxEntries}

EmptyData   == [kind |-> "empty",  key |-> "", streams |-> <<>>]
GarbageData == [kind |-> "text",   key |-> "", streams |-> <<>>]
StatusData  == [kind |-> "object", key |-> "status", streams |-> <<>>]
StreamsData(p) == [kind |-> "object", key |-> "streams", streams |-> p]

Data == {EmptyData, GarbageData, StatusData} \cup {StreamsData(p) : p \in WirePayloads}

is_empty(data) == data.kind = "empty"

(***************************************************************************)
(* serde_json::from_slice::<TailResponse>: the whole payload is rejected   *)
(* unless it is a JSON object with a "streams" member all of whose entries *)
(* have exactly the two fields of LogEntry.                                *)
(***************************************************************************)
LogEntry(e) == [ts |-> e[1], line |-> e[2]]

Stream(w) == [labels |-> w.stream,
              values |-> [j \in 1..Len(w.values) |-> LogEntry(w.values[j])]]

TailResponse(data) == [i \in 1..Len(data.streams) |-> Stream(data.streams[i])]

from_slice_ok(data) ==
    /\ data.kind = "object"
    /\ data.key = "streams"
    /\ \A i \in 1..Len(data.streams) :
         \A j \in 1..Len(data.streams[i].values) :
            Len(data.streams[i].values[j]) = 2

\* The JSON object serialised from LokiRow { timestamp, line, labels }.
LokiRow(s, v) == [timestamp |-> v.ts, line |-> v.line, labels |-> s.labels]

\* Position of the nested for loops: the first stream at or after i that
\* has an entry, Len(ss) + 1 when there is none.
RECURSIVE SkipEmpty(_, _)
SkipEmpty(ss, i) ==
    IF i > Len(ss) THEN i
    ELSE IF Len(ss[i].values) > 0 THEN i
    ELSE SkipEmpty(ss, i + 1)

(***************************************************************************)
(* The downstream sink (Timestamper), as section 6 of the specification    *)
(* describes it: a transaction is committed, and its rows become visible,  *)
(* when it ends after all its inserts succeeded; it is aborted, and its    *)
(* rows are discarded, when it is abandoned after a failure.  `done` is    *)
(* the set of committed transactions.                                      *)
(***************************************************************************)
TxCommit(done, t) == done \cup {t}

TxAbort(done, t) == done

(***************************************************************************)
(* State.                                                                  *)
(***************************************************************************)
VARIABLES
    conn_info,      \* self.conn_info
    pc,             \* control position of start()
    now,            \* wall clock, seconds
    stream,         \* the live subscription: 0 = none, else the attempt that opened it
    start,          \* `start` anchor of the latest get_stream call
    attempts,       \* number of get_stream calls so far
    message,        \* the item stream.next() yielded, until it is matched
    streams,        \* decoded streams of the payload being inserted
    si, vi,         \* position of the two for loops
    tx,             \* the open transaction: 0 = none, else its ordinal
    txCount,        \* number of start_tx calls so far
    offered,        \* tx.insert calls made on the latest transaction: [tx, row, ok]
    open,           \* transactions the sink holds open
    committed,      \* transactions the sink has committed
    result,         \* what start() returned, None while it runs
    sleepFor,       \* duration of the sleep in progress
    msgs,           \* items yielded by stream.next() so far
    faults,         \* stream errors so far
    ends,           \* clean ends of stream so far
    cause,          \* why the latest / pending connection attempt is made
    faultAt,        \* time of the latest stream error
    faultAttempts,  \* value of attempts at the latest stream error
    prev,           \* what the latest item handled was
    nDecoded,       \* payloads decoded so far
    expected,       \* rows of the payload being inserted, in source order
    live,           \* subscriptions the transport holds open
    connects,       \* number of connect_async calls so far
    request,        \* the client request of the latest connect_async call
    calls,          \* builder calls made on the connection information
    lastCall,       \* the latest builder call: [fn, arg]
    supplied        \* per field, the latest Some value given (else the initial one)

vars == <<conn_info, pc, now, stream, start, attempts, message, streams, si, vi,
          tx, txCount, offered, committed, result, sleepFor, msgs, faults, ends,
          cause, faultAt, faultAttempts, prev, nDecoded, expected, open, live,
          connects, request, calls, lastCall, supplied>>

NoMessage   == [tag |-> "none", data |-> EmptyData]
Ok(data)    == [tag |-> "Ok",   data |-> data]
Err         == [tag |-> "Err",  data |-> EmptyData]

\* Rows of a wire payload in source order, tagged with the payload's ordinal.
RECURSIVE EntryRows(_, _, _)
EntryRows(labels, es, n) ==
    IF es = <<>> THEN <<>>
    ELSE <<[tx |-> n,
            row |-> [timestamp |-> Head(es)[1], line |-> Head(es)[2], labels |-> labels],
            ok |-> TRUE]>>
         \o EntryRows(labels, Tail(es), n)

RECURSIVE PayloadRows(_, _)
PayloadRows(p, n) ==
    IF p = <<>> THEN <<>>
    ELSE EntryRows(Head(p).stream, Head(p).values, n) \o PayloadRows(Tail(p), n)

NoCall == [fn |-> "none", arg |-> NoAddr]

\* The state every run starts from, whatever the connection information.
InitRun ==
    /\ now = 0
    /\ stream = 0
    /\ start = 0
    /\ attempts = 0
    /\ message = NoMessage
    /\ streams = <<>>
    /\ si = 1
    /\ vi = 1
    /\ tx = 0
    /\ txCount = 0
    /\ offered = <<>>
    /\ open = {}
    /\ committed = {}
    /\ result = None
    /\ sleepFor = 0
    /\ msgs = 0
    /\ faults = 0
    /\ ends = 0
    /\ cause = "initial"
    /\ faultAt = 0
    /\ faultAttempts = 0
    /\ prev = "none"
    /\ nDecoded = 0
    /\ expected = <<>>
    /\ live = {}
    /\ connects = 0
    /\ request = NoRequest
    /\ calls = 0
    /\ lastCall = NoCall

\* LokiSourceReader::new has been called on one of the configurations.
Init ==
    /\ \E i \in Configs :
         /\ conn_info = new(i)
         /\ supplied = i
    /\ pc = "get_stream"
    /\ InitRun

(***************************************************************************)
(* get_stream.  The `start` anchor is read from the clock first; the       *)
(* endpoint is then parsed and switched to wss; the handshake and the      *)
(* response status are the network's choice.                               *)
(***************************************************************************)
Handshakes == {"ok", "refused", "bad_status"}

get_stream_ok(info, net) ==
    /\ url_parse_ok(info.endpoint)
    /\ set_scheme_ok(info.endpoint)
    /\ net = "ok"

\* Variant of GetStreamOk: the `start` anchor is not read from the clock again.
GetStreamOk_StaleAnchor ==
    /\ pc = "get_stream"
    /\ attempts < MaxAttempts
    /\ \E net \in Handshakes : get_stream_ok(conn_info, net)
    /\ attempts' = attempts + 1
    /\ stream' = attempts + 1
    /\ pc' = "next"
    /\ request' = client_request(conn_info, attempts + 1, start)
    /\ connects' = connects + 1
    /\ live' = live \cup {attempts + 1}
    /\ UNCHANGED <<calls, lastCall, supplied, open, prev, conn_info, now, start,
                   message, streams, si, vi, tx, txCount, offered, committed,
                   result, sleepFor, msgs, faults, ends, cause, faultAt,
                   faultAttempts, nDecoded, expected>>

\* get_stream returns Ok(stream): the subscription is live, the while loop starts.
GetStreamOk ==
    /\ pc = "get_stream"
    /\ attempts < MaxAttempts
    /\ \E net \in Handshakes : get_stream_ok(conn_info, net)
    /\ attempts' = attempts + 1
    /\ start' = now
    /\ stream' = attempts + 1
    /\ pc' = "next"
    /\ request' = client_request(conn_info, attempts + 1, now)
    /\ connects' = connects + 1
    /\ live' = live \cup {attempts + 1}
    /\ UNCHANGED <<calls, lastCall, supplied, open, prev, conn_info, now, message,
                   streams, si, vi, tx, txCount, offered, committed, result,
                   sleepFor, msgs, faults, ends, cause, faultAt, faultAttempts,
                   nDecoded, expected>>

\* Variant of GetStreamErr: a failed open is retried after the delay.
GetStreamErr_Retry ==
    /\ pc = "get_stream"
    /\ attempts < MaxAttempts
    /\ \E net \in Handshakes : ~get_stream_ok(conn_info, net)
    /\ attempts' = attempts + 1
    /\ start' = now
    /\ sleepFor' = RetryDelay
    /\ pc' = "sleep"
    /\ IF url_parse_ok(conn_info.endpoint) /\ set_scheme_ok(conn_info.endpoint)
       THEN /\ request' = client_request(conn_info, attempts + 1, now)
            /\ connects' = connects + 1
       ELSE UNCHANGED <<request, connects>>
    /\ UNCHANGED <<live, calls, lastCall, supplied, open, prev, conn_info, now,
                   stream, message, streams, si, vi, tx, txCount, offered,
                   committed, result, msgs, faults, ends, cause, faultAt,
                   faultAttempts, nDecoded, expected>>

\* get_stream returns Err: map_err(Initialization) and `?` return from start().
GetStreamErr ==
    /\ pc = "get_stream"
    /\ attempts < MaxAttempts
    /\ \E net \in Handshakes : ~get_stream_ok(conn_info, net)
    /\ attempts' = attempts + 1
    /\ start' = now
    /\ result' = "Initialization"
    /\ pc' = "returned"
    /\ IF url_parse_ok(conn_info.endpoint) /\ set_scheme_ok(conn_info.endpoint)
       THEN /\ request' = client_request(conn_info, attempts + 1, now)
            /\ connects' = connects + 1
       ELSE UNCHANGED <<request, connects>>
    /\ UNCHANGED <<live, calls, lastCall, supplied, open, prev, conn_info, now,
                   stream, message, streams, si, vi, tx, txCount, offered,
                   committed, sleepFor, msgs, faults, ends, cause, faultAt,
                   faultAttempts, nDecoded, expected>>

(***************************************************************************)
(* stream.next().await yields Some(message): a transport error or a        *)
(* message with its data.  Time may pass while the task waits.             *)
(***************************************************************************)
StreamNext ==
    /\ pc = "next"
    /\ msgs < MaxMsgs
    /\ \E m \in {Err} \cup {Ok(d) : d \in Data} :
         message' = m
    /\ \E late \in BOOLEAN : now' = IF late THEN now + 1 ELSE now
    /\ msgs' = msgs + 1
    /\ pc' = "match"
    /\ UNCHANGED <<live, connects, request, calls, lastCall, supplied,
                   open, prev, conn_info, stream, start, attempts, streams, si, vi, tx, txCount,
                   offered, committed, result, sleepFor, faults, ends, cause, faultAt,
                   faultAttempts, nDecoded, expected>>

\* Variant of StreamEnd: a clean end waits like a stream error does.
StreamEnd_Delay ==
    /\ pc = "next"
    /\ msgs < MaxMsgs
    /\ msgs' = msgs + 1
    /\ ends' = ends + 1
    /\ cause' = "end"
    /\ sleepFor' = RetryDelay
    /\ pc' = "sleep"
    /\ prev' = "end"
    /\ UNCHANGED <<stream, live, connects, request, calls, lastCall, supplied, open,
                   conn_info, now, start, attempts, message, streams, si, vi, tx,
                   txCount, offered, committed, result, faults, faultAt,
                   faultAttempts, nDecoded, expected>>

\* Variant of StreamEnd: start() returns Ok(()) when the stream ends.
StreamEnd_ReturnOk ==
    /\ pc = "next"
    /\ msgs < MaxMsgs
    /\ msgs' = msgs + 1
    /\ ends' = ends + 1
    /\ cause' = "end"
    /\ stream' = 0
    /\ live' = live \ {stream}
    /\ result' = "Ok"
    /\ pc' = "returned"
    /\ prev' = "end"
    /\ UNCHANGED <<connects, request, calls, lastCall, supplied, open, conn_info, now,
                   start, attempts, message, streams, si, vi, tx, txCount, offered,
                   committed, sleepFor, faults, faultAt, faultAttempts, nDecoded,
                   expected>>

\* stream.next().await yields None: the while loop ends, the body of 'outer
\* ends (the stream is dropped) and 'outer starts over.
StreamEnd ==
    /\ pc = "next"
    /\ msgs < MaxMsgs
    /\ msgs' = msgs + 1
    /\ ends' = ends + 1
    /\ cause' = "end"
    /\ stream' = 0
    /\ pc' = "get_stream"
    /\ prev' = "end"
    /\ live' = live \ {stream}
    /\ UNCHANGED <<connects, request, calls, lastCall, supplied, open, conn_info,
                   now, start, attempts, message, streams, si, vi, tx, txCount,
                   offered, committed, result, sleepFor, faults, faultAt,
                   faultAttempts, nDecoded, expected>>

\* Variant of StreamFault: the stream is dropped before the sleep starts.
StreamFault_DropFirst ==
    /\ pc = "match"
    /\ message.tag = "Err"
    /\ message' = NoMessage
    /\ faults' = faults + 1
    /\ faultAt' = now
    /\ faultAttempts' = attempts
    /\ cause' = "fault"
    /\ sleepFor' = RetryDelay
    /\ stream' = 0
    /\ live' = live \ {stream}
    /\ pc' = "sleep"
    /\ prev' = "fault"
    /\ UNCHANGED <<connects, request, calls, lastCall, supplied, open, conn_info, now,
                   start, attempts, streams, si, vi, tx, txCount, offered, committed,
                   result, msgs, ends, nDecoded, expected>>

\* Variant of StreamFault: the delay grows with the number of errors.
StreamFault_Backoff ==
    /\ pc = "match"
    /\ message.tag = "Err"
    /\ message' = NoMessage
    /\ faults' = faults + 1
    /\ faultAt' = now
    /\ faultAttempts' = attempts
    /\ cause' = "fault"
    /\ sleepFor' = RetryDelay * (faults + 1)
    /\ pc' = "sleep"
    /\ prev' = "fault"
    /\ UNCHANGED <<live, connects, request, calls, lastCall, supplied,
                   open, conn_info, now, stream, start, attempts, streams, si, vi, tx,
                   txCount, offered, committed, result, msgs, ends, nDecoded, expected>>

\* Err(error): warn, then tokio::time::sleep(Duration::from_secs(5)) starts.
\* The stream is still in scope while the task sleeps.
StreamFault ==
    /\ pc = "match"
    /\ message.tag = "Err"
    /\ message' = NoMessage
    /\ faults' = faults + 1
    /\ faultAt' = now
    /\ faultAttempts' = attempts
    /\ cause' = "fault"
    /\ sleepFor' = RetryDelay
    /\ pc' = "sleep"
    /\ prev' = "fault"
    /\ UNCHANGED <<live, connects, request, calls, lastCall, supplied,
                   open, conn_info, now, stream, start, attempts, streams, si, vi, tx,
                   txCount, offered, committed, result, msgs, ends, nDecoded, expected>>

\* Variant of Sleep: the stream outlives the loop body and is only replaced
\* when the next one has been opened.
Sleep_KeepStream ==
    /\ pc = "sleep"
    /\ now' = now + sleepFor
    /\ sleepFor' = 0
    /\ pc' = "get_stream"
    /\ UNCHANGED <<stream, live, connects, request, calls, lastCall, supplied, open,
                   prev, conn_info, start, attempts, message, streams, si, vi, tx,
                   txCount, offered, committed, result, msgs, faults, ends, cause,
                   faultAt, faultAttempts, nDecoded, expected>>

\* The sleep completes and `continue 'outer` leaves the loop body, which
\* drops the stream.
Sleep ==
    /\ pc = "sleep"
    /\ now' = now + sleepFor
    /\ sleepFor' = 0
    /\ stream' = 0
    /\ pc' = "get_stream"
    /\ live' = live \ {stream}
    /\ UNCHANGED <<connects, request, calls, lastCall, supplied, open, prev,
                   conn_info, start, attempts, message, streams, si, vi, tx,
                   txCount, offered, committed, result, msgs, faults, ends, cause,
                   faultAt, faultAttempts, nDecoded, expected>>

\* Variant of EmptyMessage: the emptiness test is missing, the empty data goes
\* to the decoder, which rejects it with a warning.
EmptyMessage_Decoded ==
    /\ pc = "match"
    /\ message.tag = "Ok"
    /\ is_empty(message.data)
    /\ message' = NoMessage
    /\ pc' = "next"
    /\ prev' = "undecodable"
    /\ UNCHANGED <<live, connects, request, calls, lastCall, supplied,
                   open, conn_info, now, stream, start, attempts, streams, si, vi, tx,
                   txCount, offered, committed, result, sleepFor, msgs, faults, ends,
                   cause, faultAt, faultAttempts, nDecoded, expected>>

\* message.is_empty(): continue 'inner.
EmptyMessage ==
    /\ pc = "match"
    /\ message.tag = "Ok"
    /\ is_empty(message.data)
    /\ message' = NoMessage
    /\ pc' = "next"
    /\ prev' = "empty"
    /\ UNCHANGED <<live, connects, request, calls, lastCall, supplied,
                   open, conn_info, now, stream, start, attempts, streams, si, vi, tx,
                   txCount, offered, committed, result, sleepFor, msgs, faults, ends,
                   cause, faultAt, faultAttempts, nDecoded, expected>>

\* Variant of DecodeError: an undecodable message is taken for a broken
\* stream, and the reader reconnects after the delay.
DecodeError_Reconnect ==
    /\ pc = "match"
    /\ message.tag = "Ok"
    /\ ~is_empty(message.data)
    /\ ~from_slice_ok(message.data)
    /\ message' = NoMessage
    /\ sleepFor' = RetryDelay
    /\ pc' = "sleep"
    /\ prev' = "undecodable"
    /\ UNCHANGED <<live, connects, request, calls, lastCall, supplied,
                   open, conn_info, now, stream, start, attempts, streams, si, vi, tx,
                   txCount, offered, committed, result, msgs, faults, ends, cause,
                   faultAt, faultAttempts, nDecoded, expected>>

\* Variant of DecodeError: the deserialization error is returned from start().
DecodeError_Fatal ==
    /\ pc = "match"
    /\ message.tag = "Ok"
    /\ ~is_empty(message.data)
    /\ ~from_slice_ok(message.data)
    /\ message' = NoMessage
    /\ stream' = 0
    /\ result' = "Initialization"
    /\ pc' = "returned"
    /\ prev' = "undecodable"
    /\ UNCHANGED <<live, connects, request, calls, lastCall, supplied,
                   open, conn_info, now, start, attempts, streams, si, vi, tx, txCount,
                   offered, committed, sleepFor, msgs, faults, ends, cause, faultAt,
                   faultAttempts, nDecoded, expected>>

\* serde_json::from_slice fails: warn, continue 'inner.
DecodeError ==
    /\ pc = "match"
    /\ message.tag = "Ok"
    /\ ~is_empty(message.data)
    /\ ~from_slice_ok(message.data)
    /\ message' = NoMessage
    /\ pc' = "next"
    /\ prev' = "undecodable"
    /\ UNCHANGED <<live, connects, request, calls, lastCall, supplied,
                   open, conn_info, now, stream, start, attempts, streams, si, vi, tx,
                   txCount, offered, committed, result, sleepFor, msgs, faults, ends,
                   cause, faultAt, faultAttempts, nDecoded, expected>>

\* Variant of StartTx: a payload without entries opens no transaction.
StartTx_SkipEmptyPayload ==
    /\ pc = "match"
    /\ message.tag = "Ok"
    /\ ~is_empty(message.data)
    /\ from_slice_ok(message.data)
    /\ nDecoded' = nDecoded + 1
    /\ message' = NoMessage
    /\ prev' = "payload"
    /\ IF TotalEntries(message.data.streams) = 0
       THEN /\ pc' = "next"
            /\ UNCHANGED <<streams, si, vi, txCount, tx, open, expected>>
       ELSE /\ streams' = TailResponse(message.data)
            /\ si' = SkipEmpty(streams', 1)
            /\ vi' = 1
            /\ txCount' = txCount + 1
            /\ tx' = txCount + 1
            /\ open' = open \cup {txCount + 1}
            /\ expected' = PayloadRows(message.data.streams, nDecoded + 1)
            /\ pc' = "insert"
    /\ UNCHANGED <<live, connects, request, calls, lastCall, supplied, conn_info, now,
                   stream, start, attempts, offered, committed, result, sleepFor,
                   msgs, faults, ends, cause, faultAt, faultAttempts>>

\* serde_json::from_slice succeeds; timestamper.start_tx() opens a transaction
\* and the for loops start.
StartTx ==
    /\ pc = "match"
    /\ message.tag = "Ok"
    /\ ~is_empty(message.data)
    /\ from_slice_ok(message.data)
    /\ streams' = TailResponse(message.data)
    /\ si' = SkipEmpty(streams', 1)
    /\ vi' = 1
    /\ txCount' = txCount + 1
    /\ tx' = txCount + 1
    /\ open' = open \cup {txCount + 1}
    /\ nDecoded' = nDecoded + 1
    /\ expected' = PayloadRows(message.data.streams, nDecoded + 1)
    /\ message' = NoMessage
    /\ pc' = "insert"
    /\ prev' = "payload"
    /\ UNCHANGED <<live, connects, request, calls, lastCall, supplied,
                   conn_info, now, stream, start, attempts, offered, committed, result,
                   sleepFor, msgs, faults, ends, cause, faultAt, faultAttempts>>

\* Variant of Insert: the entries of a stream are taken last first.
Insert_Reversed ==
    /\ pc = "insert"
    /\ si <= Len(streams)
    /\ offered' = Append(offered,
                         [tx |-> tx,
                          row |-> LokiRow(streams[si],
                                          streams[si].values[Len(streams[si].values) + 1 - vi]),
                          ok |-> TRUE])
    /\ IF vi < Len(streams[si].values)
       THEN /\ vi' = vi + 1
            /\ si' = si
       ELSE /\ vi' = 1
            /\ si' = SkipEmpty(streams, si + 1)
    /\ UNCHANGED <<live, connects, request, calls, lastCall, supplied,
                   open, prev, conn_info, pc, now, stream, start, attempts, message,
                   streams, tx, txCount, committed, result, sleepFor, msgs, faults,
                   ends, cause, faultAt, faultAttempts, nDecoded, expected>>

\* Variant of Insert: every row carries the labels of the payload's first stream.
Insert_FirstLabels ==
    /\ pc = "insert"
    /\ si <= Len(streams)
    /\ offered' = Append(offered,
                         [tx |-> tx,
                          row |-> LokiRow(streams[1], streams[si].values[vi]),
                          ok |-> TRUE])
    /\ IF vi < Len(streams[si].values)
       THEN /\ vi' = vi + 1
            /\ si' = si
       ELSE /\ vi' = 1
            /\ si' = SkipEmpty(streams, si + 1)
    /\ UNCHANGED <<live, connects, request, calls, lastCall, supplied,
                   open, prev, conn_info, pc, now, stream, start, attempts, message,
                   streams, tx, txCount, committed, result, sleepFor, msgs, faults,
                   ends, cause, faultAt, faultAttempts, nDecoded, expected>>

\* tx.insert(row) returns Ok: the inner for loop moves on.
Insert ==
    /\ pc = "insert"
    /\ si <= Len(streams)
    /\ offered' = Append(offered,
                         [tx |-> tx,
                          row |-> LokiRow(streams[si], streams[si].values[vi]),
                          ok |-> TRUE])
    /\ IF vi < Len(streams[si].values)
       THEN /\ vi' = vi + 1
            /\ si' = si
       ELSE /\ vi' = 1
            /\ si' = SkipEmpty(streams, si + 1)
    /\ UNCHANGED <<live, connects, request, calls, lastCall, supplied,
                   open, prev, conn_info, pc, now, stream, start, attempts, message, streams, tx,
                   txCount, committed, result, sleepFor, msgs, faults, ends, cause,
                   faultAt, faultAttempts, nDecoded, expected>>

\* Variant of InsertErr: the failure is logged and the loop moves on.
InsertErr_Continue ==
    /\ pc = "insert"
    /\ si <= Len(streams)
    /\ offered' = Append(offered,
                         [tx |-> tx,
                          row |-> LokiRow(streams[si], streams[si].values[vi]),
                          ok |-> FALSE])
    /\ IF vi < Len(streams[si].values)
       THEN /\ vi' = vi + 1
            /\ si' = si
       ELSE /\ vi' = 1
            /\ si' = SkipEmpty(streams, si + 1)
    /\ UNCHANGED <<live, connects, request, calls, lastCall, supplied,
                   open, prev, conn_info, pc, now, stream, start, attempts, message,
                   streams, tx, txCount, committed, result, sleepFor, msgs, faults,
                   ends, cause, faultAt, faultAttempts, nDecoded, expected>>

\* tx.insert(row) returns Err: map_err(Persistence) and `?` return from
\* start(); tx and stream go out of scope.
InsertErr ==
    /\ pc = "insert"
    /\ si <= Len(streams)
    /\ offered' = Append(offered,
                         [tx |-> tx,
                          row |-> LokiRow(streams[si], streams[si].values[vi]),
                          ok |-> FALSE])
    /\ committed' = TxAbort(committed, tx)
    /\ tx' = 0
    /\ open' = open \ {tx}
    /\ stream' = 0
    /\ result' = "Persistence"
    /\ pc' = "returned"
    /\ live' = live \ {stream}
    /\ UNCHANGED <<connects, request, calls, lastCall, supplied, prev, conn_info,
                   now, start, attempts, message, streams, si, vi, txCount,
                   sleepFor, msgs, faults, ends, cause, faultAt, faultAttempts,
                   nDecoded, expected>>

\* Variant of EndBatch: the transaction outlives the while body.
EndBatch_LeakTx ==
    /\ pc = "insert"
    /\ si > Len(streams)
    /\ offered' = <<>>
    /\ expected' = <<>>
    /\ streams' = <<>>
    /\ si' = 1
    /\ vi' = 1
    /\ pc' = "next"
    /\ UNCHANGED <<live, connects, request, calls, lastCall, supplied,
                   open, tx, committed, prev, conn_info, now, stream, start, attempts,
                   message, txCount, result, sleepFor, msgs, faults, ends, cause,
                   faultAt, faultAttempts, nDecoded>>

\* Both for loops are done: tx goes out of scope at the end of the while
\* body, and the task awaits the next message.
EndBatch ==
    /\ pc = "insert"
    /\ si > Len(streams)
    /\ committed' = TxCommit(committed, tx)
    /\ offered' = <<>>
    /\ expected' = <<>>
    /\ tx' = 0
    /\ open' = open \ {tx}
    /\ streams' = <<>>
    /\ si' = 1
    /\ vi' = 1
    /\ pc' = "next"
    /\ UNCHANGED <<live, connects, request, calls, lastCall, supplied,
                   prev, conn_info, now, stream, start, attempts, message, txCount, result,
                   sleepFor, msgs, faults, ends, cause, faultAt, faultAttempts,
                   nDecoded>>

Next ==
    \/ GetStreamOk
    \/ GetStreamErr
    \/ StreamNext
    \/ StreamEnd
    \/ StreamFault
    \/ Sleep
    \/ EmptyMessage
    \/ DecodeError
    \/ StartTx
    \/ Insert
    \/ InsertErr
    \/ EndBatch

Spec == Init /\ [][Next]_vars

(***************************************************************************)
(* Building the reader.  The connection information comes from the         *)
(* environment, any of the three builders may then be called on it, and    *)
(* LokiSourceReader::new takes it over.  This specification follows the    *)
(* construction and then the connection attempts of the reader; the        *)
(* subscription is only ever ended by the server.                          *)
(***************************************************************************)
runvars == <<pc, now, stream, start, attempts, message, streams, si, vi, tx,
             txCount, offered, committed, result, sleepFor, msgs, faults, ends,
             cause, faultAt, faultAttempts, prev, nDecoded, expected, open, live,
             connects, request>>

InitConfig ==
    /\ \E env \in Envs :
         /\ conn_info = from_env(env)
         /\ supplied = from_env(env)
    /\ pc = "config"
    /\ InitRun

WithUser ==
    /\ pc = "config"
    /\ calls < MaxCalls
    /\ \E user \in Users :
         /\ conn_info' = with_user(conn_info, user)
         /\ lastCall' = [fn |-> "with_user", arg |-> user]
         /\ supplied' = IF user = None THEN supplied
                        ELSE [supplied EXCEPT !.user = user]
    /\ calls' = calls + 1
    /\ UNCHANGED runvars

WithPassword ==
    /\ pc = "config"
    /\ calls < MaxCalls
    /\ \E password \in Passwords :
         /\ conn_info' = with_password(conn_info, password)
         /\ lastCall' = [fn |-> "with_password", arg |-> password]
         /\ supplied' = IF password = None THEN supplied
                        ELSE [supplied EXCEPT !.pw = password]
    /\ calls' = calls + 1
    /\ UNCHANGED runvars

WithEndpoint ==
    /\ pc = "config"
    /\ calls < MaxCalls
    /\ \E address \in Addrs :
         /\ conn_info' = with_endpoint(conn_info, address)
         /\ lastCall' = [fn |-> "with_endpoint", arg |-> address]
         /\ supplied' = IF address = NoAddr THEN supplied
                        ELSE [supplied EXCEPT !.endpoint = address]
    /\ calls' = calls + 1
    /\ UNCHANGED runvars

\* Variant of New: the endpoint is validated when the reader is constructed.
New_Validating ==
    /\ pc = "config"
    /\ conn_info' = new(conn_info)
    /\ IF url_parse_ok(conn_info.endpoint) /\ set_scheme_ok(conn_info.endpoint)
       THEN /\ pc' = "get_stream"
            /\ UNCHANGED result
       ELSE /\ pc' = "returned"
            /\ result' = "Initialization"
    /\ UNCHANGED <<now, stream, start, attempts, message, streams, si, vi, tx,
                   txCount, offered, committed, sleepFor, msgs, faults, ends,
                   cause, faultAt, faultAttempts, prev, nDecoded, expected, open,
                   live, connects, request, calls, lastCall, supplied>>

\* LokiSourceReader::new: the tail path is appended, nothing is checked.
New ==
    /\ pc = "config"
    /\ conn_info' = new(conn_info)
    /\ pc' = "get_stream"
    /\ UNCHANGED <<now, stream, start, attempts, message, streams, si, vi, tx,
                   txCount, offered, committed, result, sleepFor, msgs, faults,
                   ends, cause, faultAt, faultAttempts, prev, nDecoded, expected,
                   open, live, connects, request, calls, lastCall, supplied>>

NextConfig ==
    \/ WithUser
    \/ WithPassword
    \/ WithEndpoint
    \/ New
    \/ GetStreamOk
    \/ GetStreamErr
    \/ StreamEnd

SpecConfig == InitConfig /\ [][NextConfig]_vars

(***************************************************************************)
(* Shapes of state the properties below speak of.                          *)
(***************************************************************************)
Connected  == stream /= 0 /\ pc \in {"next", "match", "insert"}
Terminated == pc = "returned"
GoodEndpoint == url_parse_ok(conn_info.endpoint) /\ set_scheme_ok(conn_info.endpoint)

(***************************************************************************)
(* C1.  Reconnect after a stream fault: once stream.next() has yielded a   *)
(* transport error, start() has not returned; the task sleeps the fixed 5  *)
(* seconds without a connection attempt, and then makes exactly one new    *)
(* attempt, whose `start` anchor is no earlier than the fault (and no      *)
(* earlier than the end of the delay).                                     *)
(***************************************************************************)
C1_ReconnectAfterFault ==
    cause = "fault" =>
        /\ pc = "sleep" =>
              /\ result = None
              /\ sleepFor = RetryDelay
              /\ attempts = faultAttempts
              /\ now = faultAt
        /\ pc = "get_stream" =>
              /\ result = None
              /\ attempts = faultAttempts
              /\ now >= faultAt + RetryDelay
        /\ pc \notin {"sleep", "get_stream"} =>
              /\ attempts = faultAttempts + 1
              /\ start >= faultAt
              /\ start >= faultAt + RetryDelay

C1_Witness ==
    /\ cause = "fault"
    /\ Connected
    /\ pc = "next"
    /\ faultAt > 0
    /\ attempts = faultAttempts + 1
    /\ stream = attempts

(***************************************************************************)
(* C2.  Only ConnectionError and PersistenceError cross the connector      *)
(* boundary: every step in which start() returns is a failed get_stream    *)
(* (Initialization) or a failed tx.insert (Persistence); the handling of a *)
(* stream error, of an undecodable message or of an empty message never    *)
(* returns.                                                                *)
(***************************************************************************)
C2_OnlyConnectAndPersistCross ==
    [][ (pc' = "returned" /\ pc /= "returned") =>
           \/ /\ pc = "get_stream"
              /\ attempts' = attempts + 1
              /\ stream' = 0
              /\ result' = "Initialization"
           \/ /\ pc = "insert"
              /\ Len(offered') = Len(offered) + 1
              /\ ~offered'[Len(offered')].ok
              /\ result' = "Persistence" ]_vars

C2_Witness ==
    /\ Terminated
    /\ result = "Persistence"
    /\ faults >= 1
    /\ msgs = MaxMsgs

(***************************************************************************)
(* C3.  A failed initial connect is fatal and not retried: when the first  *)
(* get_stream has not produced a stream, start() has returned an           *)
(* Initialization error after that one attempt, with no delay, no          *)
(* transaction and no row; an endpoint that does not parse or cannot be    *)
(* switched to wss always ends that way.                                   *)
(***************************************************************************)
C3_InitialConnectFailureFatal ==
    /\ (cause = "initial" /\ attempts >= 1 /\ stream = 0 /\ result /= "Persistence") =>
          /\ Terminated
          /\ result = "Initialization"
          /\ attempts = 1
          /\ now = 0
          /\ sleepFor = 0
          /\ msgs = 0
          /\ txCount = 0
          /\ tx = 0
          /\ offered = <<>>
          /\ committed = {}
    /\ (~GoodEndpoint /\ attempts >= 1) =>
          /\ Terminated
          /\ result = "Initialization"
          /\ attempts = 1

C3_Witness ==
    /\ Terminated
    /\ result = "Initialization"
    /\ cause = "initial"
    /\ GoodEndpoint
    /\ attempts = 1

(***************************************************************************)
(* C4.  Retry is unbounded and the delay does not grow: with n stream      *)
(* errors so far and no clean end of stream, a connected reader has made   *)
(* exactly n + 1 connection attempts; every sleep lasts RetryDelay         *)
(* whatever the number of errors before it; and after any number of errors *)
(* the reader never refuses to connect: at get_stream a successful open is *)
(* possible (within the model's bound on attempts).                        *)
(***************************************************************************)
C4_RetryUnboundedFixedDelay ==
    /\ (Connected /\ ends = 0) => (attempts = faults + 1 /\ result = None)
    /\ pc = "sleep" => (sleepFor = RetryDelay /\ result = None)
    /\ (pc = "get_stream" /\ GoodEndpoint /\ attempts < MaxAttempts) => ENABLED GetStreamOk

C4_Witness ==
    /\ Connected
    /\ ends = 0
    /\ faults = 2
    /\ attempts = 3
    /\ now >= 2 * RetryDelay

(***************************************************************************)
(* C5.  Stop on insert failure: a failed tx.insert is the last call made   *)
(* on the sink; start() has returned a Persistence error, the transaction  *)
(* and the stream are released, no transaction was opened after the        *)
(* failing one, the sink accepted exactly the k - 1 records before the     *)
(* failing k-th one, and the failing transaction is not committed (none of *)
(* its rows is visible).  Once start() has returned nothing happens: no    *)
(* insert, no read of the transport, no new transaction.                   *)
(***************************************************************************)
C5_FailureState ==
    /\ \A k \in 1..Len(offered) :
          ~offered[k].ok =>
             /\ k = Len(offered)
             /\ Terminated
             /\ result = "Persistence"
             /\ tx = 0
             /\ open = {}
             /\ stream = 0
             /\ message = NoMessage
             /\ txCount = offered[k].tx
             /\ offered[k].tx \notin committed
             /\ k <= Len(expected)
             /\ offered[k].row = expected[k].row
             /\ \A i \in 1..(k - 1) : offered[i] = expected[i]
    /\ result = "Persistence" =>
          /\ offered /= <<>>
          /\ ~offered[Len(offered)].ok

C5_StopOnInsertFailure == [](C5_FailureState) /\ [][pc /= "returned"]_vars

C5_Witness ==
    /\ result = "Persistence"
    /\ Len(offered) = 2
    /\ Len(expected) = 2
    /\ offered[1].ok
    /\ ~offered[2].ok
    /\ txCount = 2
    /\ committed = {1}

(***************************************************************************)
(* C6.  Empty-payload skip: a message whose data is empty is handled as    *)
(* empty (prev' = "empty": it does not reach the decoder), opens no        *)
(* transaction, inserts no row, keeps the subscription, starts no delay    *)
(* and no connection attempt, and the task awaits the next message.        *)
(***************************************************************************)
C6_EmptyPayloadSkip ==
    [][ (pc = "match" /\ message.tag = "Ok" /\ is_empty(message.data)) =>
           /\ pc' = "next"
           /\ prev' = "empty"
           /\ UNCHANGED <<stream, attempts, now, sleepFor, tx, txCount, open, offered,
                          committed, nDecoded, result, faults>> ]_vars

C6_Witness ==
    /\ prev = "empty"
    /\ pc = "next"
    /\ Connected
    /\ msgs = 2
    /\ txCount = 1
    /\ committed = {1}

(***************************************************************************)
(* C7.  Decode resilience: a non-empty message that does not deserialize   *)
(* inserts no row, opens no transaction, does not return from start() and  *)
(* starts neither a delay nor a connection attempt; and a payload that     *)
(* does deserialize, whatever preceded it on the subscription, has exactly *)
(* its own rows inserted and committed when its batch ends.                *)
(***************************************************************************)
C7_DecodeResilience ==
    [][ /\ (pc = "match" /\ message.tag = "Ok" /\ ~is_empty(message.data)
              /\ ~from_slice_ok(message.data)) =>
           /\ pc' = "next"
           /\ prev' = "undecodable"
           /\ UNCHANGED <<stream, attempts, now, sleepFor, tx, txCount, open, offered,
                          committed, nDecoded, result, faults>>
        /\ (pc = "match" /\ message.tag = "Ok" /\ ~is_empty(message.data)
              /\ from_slice_ok(message.data)) =>
           /\ pc' = "insert"
           /\ stream' = stream
           /\ expected' = PayloadRows(message.data.streams, txCount + 1)
        /\ (pc = "insert" /\ pc' = "next") =>
           /\ offered = expected
           /\ stream' = stream
           /\ committed' = committed \cup {tx} ]_vars

\* An undecodable message was dropped, and a well-formed payload with two
\* entries has arrived next on the same subscription.
C7_Witness ==
    /\ pc = "match"
    /\ prev = "undecodable"
    /\ message.tag = "Ok"
    /\ from_slice_ok(message.data)
    /\ TotalEntries(message.data.streams) = 2
    /\ msgs = 2
    /\ attempts = 1
    /\ stream = 1
    /\ txCount = 0
    /\ result = None

(***************************************************************************)
(* C8.  Ordering into the sink.  The rows accepted on the open transaction *)
(* are at all times a prefix of the payload's rows in source order         *)
(* (streams in envelope order, entries in entry order), each inserted on   *)
(* that payload's transaction; a batch ends only when all the payload's    *)
(* rows are in, and a transaction is opened only when every earlier one    *)
(* has ended and is committed.  By induction on the payloads, the rows     *)
(* inserted are the concatenation of the payloads' rows in arrival order.  *)
(***************************************************************************)
C8_OrderingIntoSink ==
    [][ /\ \A i \in 1..Len(offered') :
              offered'[i].ok => (i <= Len(expected') /\ offered'[i] = expected'[i])
        /\ (pc = "insert" /\ pc' = "next") =>
              /\ offered = expected
              /\ committed' = committed \cup {tx}
              /\ tx = txCount
        /\ txCount' /= txCount =>
              /\ txCount' = txCount + 1
              /\ tx = 0
              /\ open = {}
              /\ committed = 1..txCount
              /\ offered = <<>>
              /\ expected' = PayloadRows(message.data.streams, txCount')
              /\ message = Ok(StreamsData(message.data.streams)) ]_vars

\* The second payload, of two streams with one entry each, is fully inserted
\* after the first payload was committed.
C8_Witness ==
    /\ pc = "insert"
    /\ si > Len(streams)
    /\ txCount = 2
    /\ committed = {1}
    /\ Len(streams) = 2
    /\ Len(offered) = 2
    /\ offered[1].row /= offered[2].row
    /\ offered[1].tx = 2
    /\ \A i \in 1..2 : Len(streams[i].values) = 1

(***************************************************************************)
(* C9.  Label propagation and record count: the i-th row inserted for a    *)
(* payload carries the timestamp and line of the payload's i-th entry and  *)
(* the label map of the stream that holds that entry; when the loops are   *)
(* done the number of rows is the sum of the streams' entry counts.        *)
(***************************************************************************)
RECURSIVE EntryCount(_)
EntryCount(ss) == IF ss = <<>> THEN 0 ELSE Len(Head(ss).values) + EntryCount(Tail(ss))

\* The <<stream index, entry index>> of the i-th entry of ss.
RECURSIVE Locate(_, _, _)
Locate(ss, i, k) ==
    IF i <= Len(ss[k].values) THEN <<k, i>>
    ELSE Locate(ss, i - Len(ss[k].values), k + 1)

C9_LabelPropagation ==
    pc \in {"insert", "returned"} =>
        /\ Len(offered) <= EntryCount(streams)
        /\ \A i \in 1..Len(offered) :
              LET at == Locate(streams, i, 1)
                  s  == streams[at[1]]
                  v  == s.values[at[2]]
              IN  /\ offered[i].row.timestamp = v.ts
                  /\ offered[i].row.line = v.line
                  /\ offered[i].row.labels = s.labels
                  /\ DOMAIN offered[i].row = {"timestamp", "line", "labels"}
        /\ (pc = "insert" /\ si > Len(streams)) => Len(offered) = EntryCount(streams)

C9_Witness ==
    /\ pc = "insert"
    /\ si > Len(streams)
    /\ Len(streams) = 2
    /\ streams[1].labels /= streams[2].labels
    /\ Len(offered) = 2
    /\ offered[1].row.labels = streams[1].labels
    /\ offered[2].row.labels = streams[2].labels

(***************************************************************************)
(* C10.  At most one open sink transaction: the sink never holds more than *)
(* one transaction open, the one the task holds; none is open while the    *)
(* task awaits or matches a message, sleeps the retry delay, connects, or  *)
(* after it has returned.                                                  *)
(***************************************************************************)
C10_AtMostOneOpenTx ==
    /\ Cardinality(open) <= 1
    /\ open = IF tx = 0 THEN {} ELSE {tx}
    /\ pc \in {"next", "match", "sleep", "get_stream", "returned"} => open = {}

C10_Witness ==
    /\ pc = "insert"
    /\ open = {2}
    /\ committed = {1}
    /\ faults = 1
    /\ attempts = 2

(***************************************************************************)
(* C11.  Single live transport: the transport never holds more than one    *)
(* subscription of the connector open, the one it holds is the one the     *)
(* task owns (the latest one opened), and whenever get_stream is about to  *)
(* be called, after a stream error included, the previous subscription     *)
(* has been released.                                                      *)
(***************************************************************************)
C11_SingleLiveTransport ==
    /\ Cardinality(live) <= 1
    /\ live = IF stream = 0 THEN {} ELSE {stream}
    /\ pc = "get_stream" => live = {}
    /\ pc \in {"next", "match", "insert"} => live = {attempts}

C11_Witness ==
    /\ pc = "next"
    /\ cause = "fault"
    /\ faults = 1
    /\ attempts = 2
    /\ live = {2}

(***************************************************************************)
(* C12.  Builder set-if-present: a call of with_user, with_password or     *)
(* with_endpoint with None leaves the connection information as it was; a  *)
(* call with Some(v) sets that one field to v and leaves the other two;    *)
(* so while the information is being built each field holds the latest    *)
(* Some value given for it (the value from the environment when none was   *)
(* given), and a credential that is set is never cleared.                  *)
(***************************************************************************)
C12_BuilderSetIfPresent ==
    [][/\ calls' = calls + 1 =>
            CASE lastCall'.fn = "with_user" ->
                   conn_info' = IF lastCall'.arg = None THEN conn_info
                                ELSE [conn_info EXCEPT !.user = lastCall'.arg]
              [] lastCall'.fn = "with_password" ->
                   conn_info' = IF lastCall'.arg = None THEN conn_info
                                ELSE [conn_info EXCEPT !.pw = lastCall'.arg]
              [] lastCall'.fn = "with_endpoint" ->
                   conn_info' = IF lastCall'.arg = NoAddr THEN conn_info
                                ELSE [conn_info EXCEPT !.endpoint = lastCall'.arg]
       /\ pc' = "config" => conn_info' = supplied'
       /\ conn_info.user /= None => conn_info'.user /= None
       /\ conn_info.pw /= None => conn_info'.pw /= None
       /\ conn_info'.endpoint /= NoAddr]_vars

\* with_user(None) has just been called on information whose user had been
\* set by an earlier call, and the user is still there.
C12_Witness ==
    /\ pc = "config"
    /\ calls = 2
    /\ lastCall.fn = "with_user"
    /\ lastCall.arg = None
    /\ conn_info.user = "v"
    /\ conn_info.endpoint = <<"">>

(***************************************************************************)
(* C14, as claimed.  Discard before wait: during the whole retry delay     *)
(* that follows a stream error the connector holds no live subscription.   *)
(***************************************************************************)
C14_DiscardBeforeWait ==
    pc = "sleep" => stream = 0 /\ live = {}

(***************************************************************************)
(* C14, amended.  Discard after wait: during the whole retry delay the     *)
(* connector still holds the subscription that failed, without reading     *)
(* from it; the step that ends the delay releases it, so that no           *)
(* subscription is held when the next connection attempt is made.          *)
(***************************************************************************)
C14_DuringDelay ==
    /\ pc = "sleep" =>
          /\ stream /= 0
          /\ stream = faultAttempts
          /\ live = {stream}
          /\ sleepFor = RetryDelay
    /\ pc = "get_stream" => stream = 0 /\ live = {}

C14_DiscardAfterWait ==
    /\ [](C14_DuringDelay)
    /\ [][pc = "sleep" =>
            /\ pc' = "get_stream"
            /\ now' = now + RetryDelay
            /\ stream' = 0
            /\ live' = {}
            /\ msgs' = msgs]_vars

C14_Witness ==
    /\ pc = "sleep"
    /\ faults = 2
    /\ stream = 2
    /\ live = {2}
    /\ now = faultAt

(***************************************************************************)
(* C15.  A failed re-open is fatal: when the get_stream call that follows  *)
(* a stream error and its delay fails, start() has returned with an        *)
(* Initialization error, at the very time the delay ended (no second wait) *)
(* and after that single attempt (no retry).  No insert needs to have      *)
(* failed for that.                                                        *)
(***************************************************************************)
C15_FailedReopenFatal ==
    cause = "fault" =>
        /\ attempts \in {faultAttempts, faultAttempts + 1}
        /\ (attempts = faultAttempts + 1 /\ stream = 0 /\ result /= "Persistence") =>
              /\ Terminated
              /\ result = "Initialization"
              /\ now = faultAt + RetryDelay
              /\ start = now
              /\ sleepFor = 0

C15_Witness ==
    /\ Terminated
    /\ result = "Initialization"
    /\ cause = "fault"
    /\ faults = 1
    /\ attempts = 2
    /\ committed = {1}
    /\ open = {}

(***************************************************************************)
(* C16.  One transaction per decoded payload: a step opens a transaction   *)
(* exactly when it handles a message that is not an error, is not empty    *)
(* and deserializes, whether or not the payload has any stream or entry;   *)
(* it then opens exactly one.  So the number of start_tx calls is always   *)
(* the number of payloads decoded.                                         *)
(***************************************************************************)
C16_OneTxPerDecodedPayload ==
    [][/\ (txCount' /= txCount) <=>
            /\ pc = "match"
            /\ message.tag = "Ok"
            /\ ~is_empty(message.data)
            /\ from_slice_ok(message.data)
       /\ txCount' /= txCount =>
            /\ txCount' = txCount + 1
            /\ tx' = txCount'
            /\ open' = open \cup {txCount'}
            /\ open = {}
       /\ txCount' = txCount => open' \subseteq open
       /\ txCount' = nDecoded'
       /\ Cardinality(committed') + Cardinality(open') <= txCount']_vars

\* The second payload decoded has two streams and no entry: its transaction
\* is open and the for loops are over without any insert.
C16_Witness ==
    /\ pc = "insert"
    /\ nDecoded = 2
    /\ txCount = 2
    /\ open = {2}
    /\ Len(streams) = 2
    /\ si > Len(streams)
    /\ offered = <<>>
    /\ committed = {1}

(***************************************************************************)
(* C17.  A clean end of stream reconnects immediately: when stream.next()  *)
(* yields None the task goes straight to get_stream, without returning,    *)
(* without a sleep and without time passing, and the get_stream call that  *)
(* follows reads its `start` anchor from the clock.  A sleep starts only   *)
(* for a stream error, and get_stream is reached through the 5 second      *)
(* sleep exactly when the attempt to come is caused by a stream error.     *)
(***************************************************************************)
C17_CleanEndReconnectsAtOnce ==
    [][/\ (pc = "next" /\ pc' /= "match") =>
            /\ pc' = "get_stream"
            /\ cause' = "end"
            /\ result' = None
            /\ now' = now
            /\ sleepFor' = 0
            /\ stream' = 0
            /\ attempts' = attempts
       /\ (pc = "get_stream" /\ cause = "end" /\ pc' /= "get_stream") =>
            /\ attempts' = attempts + 1
            /\ start' = now
            /\ now' = now
       /\ (pc' = "sleep" /\ pc /= "sleep") => cause' = "fault"
       /\ (pc' = "get_stream" /\ pc /= "get_stream") =>
            ((pc = "sleep" /\ now' = now + RetryDelay) <=> cause' = "fault")]_vars

\* The stream ended cleanly at time 1 and the second subscription is open,
\* anchored at time 1.
C17_Witness ==
    /\ pc = "next"
    /\ cause = "end"
    /\ ends = 1
    /\ faults = 0
    /\ attempts = 2
    /\ stream = 2
    /\ now = 1
    /\ start = 1

(***************************************************************************)
(* C18.  No successful termination: start() has returned exactly when it   *)
(* has an error to return, that error is an Initialization or a            *)
(* Persistence error, and it is the only one: no value Ok(()) is ever      *)
(* returned, whatever the server sends, a clean end of stream included.    *)
(***************************************************************************)
C18_ErrorOnReturn ==
    /\ result \in {None, "Initialization", "Persistence"}
    /\ Terminated <=> result /= None
    /\ Terminated => live = {} /\ open = {}

C18_NoSuccessfulTermination ==
    /\ [](C18_ErrorOnReturn)
    /\ [][/\ result /= None => result' = result
          /\ (result = None /\ result' /= None) =>
                \/ pc = "get_stream" /\ result' = "Initialization"
                \/ pc = "insert" /\ result' = "Persistence"]_vars

\* The server ended the stream cleanly twice; the run went on and returned
\* only when an insert failed.
C18_Witness ==
    /\ Terminated
    /\ ends = 2
    /\ attempts = 3
    /\ result = "Persistence"

(***************************************************************************)
(* What a server reads back from base64 text: the inverse of Base64.       *)
(***************************************************************************)
RECURSIVE Base64Decode(_)
Base64Decode(ds) ==
    IF Len(ds) < 4 THEN <<>>
    ELSE IF ds[3] = Pad THEN
        <<ds[1] * 4 + ds[2] \div 16>>
    ELSE IF ds[4] = Pad THEN
        <<ds[1] * 4 + ds[2] \div 16, (ds[2] % 16) * 16 + ds[3] \div 4>>
    ELSE
        <<ds[1] * 4 + ds[2] \div 16, (ds[2] % 16) * 16 + ds[3] \div 4,
          (ds[3] % 4) * 64 + ds[4]>>
        \o Base64Decode(SubSeq(ds, 5, Len(ds)))

(***************************************************************************)
(* C19.  Basic authentication header: the request of every connection      *)
(* attempt, the first as well as a later one, carries an Authorization     *)
(* header exactly when a user is configured; the header is "Basic "        *)
(* followed by base64 text that decodes to the user, a colon and the       *)
(* password, or nothing after the colon when no password is configured.    *)
(* A password without a user gives no header.                              *)
(***************************************************************************)
C19_BasicAuthHeader ==
    connects > 0 =>
        /\ connects = attempts
        /\ request.attempt = attempts
        /\ request.start = start
        /\ request.headers /= {} <=> conn_info.user /= None
        /\ conn_info.user /= None =>
              /\ Cardinality(request.headers) = 1
              /\ \A h \in request.headers :
                    /\ h.name = "Authorization"
                    /\ h.value.prefix = "Basic "
                    /\ Base64Decode(h.value.b64) =
                          Bytes(conn_info.user) \o <<Colon>>
                          \o (IF conn_info.pw = None THEN <<>>
                              ELSE Bytes(conn_info.pw))

\* Second connection attempt of a reader with user "u" and no password:
\* the header is "Basic dTo=".
C19_Witness ==
    /\ attempts = 2
    /\ connects = 2
    /\ conn_info.user = "u"
    /\ conn_info.pw = None
    /\ request.attempt = 2
    /\ request.headers = {[name  |-> "Authorization",
                           value |-> [prefix |-> "Basic ",
                                      b64    |-> <<29, 19, 40, Pad>>]]}

(***************************************************************************)
(* C20.  Construction never fails: from_env yields connection information  *)
(* whatever the environment (the empty endpoint when LOKI_ADDR is unset),  *)
(* and neither the builders nor LokiSourceReader::new end the run; before  *)
(* the first get_stream call nothing has failed.  An endpoint that is      *)
(* empty or cannot be turned into a wss URL makes that first call fail:    *)
(* start() returns an Initialization error after one attempt, and no       *)
(* request was built and no connect_async call made.                       *)
(***************************************************************************)
C20_EndpointCheckedAtFirstConnect ==
    /\ \A env \in Envs :
         /\ from_env(env) \in LokiConnectionInfo
         /\ env.LOKI_ADDR = NoAddr => from_env(env).endpoint = <<"">>
    /\ pc = "config" => conn_info \in LokiConnectionInfo
    /\ attempts = 0 =>
         /\ pc \in {"config", "get_stream"}
         /\ result = None
         /\ connects = 0
    /\ (attempts >= 1 /\ ~GoodEndpoint) =>
         /\ Terminated
         /\ result = "Initialization"
         /\ attempts = 1
         /\ connects = 0
         /\ request = NoRequest
         /\ live = {}

\* LOKI_ADDR was unset and with_endpoint(None) was the last builder call:
\* the reader was built on the empty endpoint and its first get_stream
\* call has failed.
C20_Witness ==
    /\ Terminated
    /\ supplied.endpoint = <<"">>
    /\ conn_info.endpoint = <<"", TailPath>>
    /\ calls = 2
    /\ lastCall.fn = "with_endpoint"
    /\ lastCall.arg = NoAddr
    /\ attempts = 1
    /\ connects = 0

====
